---------------------------- MODULE Spec2Model ----------------------------
(***************************************************************************)
(* Questionnaire application (website/views.py): question normalisation,   *)
(* answer validation, the per-questionnaire CSV result log and the admin   *)
(* handlers that create, upload and delete questionnaire definitions.      *)
(*                                                                         *)
(* Strings are sequences of one-character strings, so that slugify, strip, *)
(* split and join are computed as the code computes them.  JSON values are *)
(* tagged records: [t |-> "null"], [t |-> "str", s |-> chars],             *)
(* [t |-> "bool", b |-> BOOLEAN], [t |-> "list", items |-> sequence] and   *)
(* [t |-> "dict", d |-> function from field names to JSON values].         *)
(***************************************************************************)
EXTENDS Integers, Sequences, FiniteSets, TLC

VARIABLES
    raw,          \* normalize_questions: its argument
    normalized,   \* normalize_questions: its result
    questions,    \* questionnaire(): the loaded question list
    form,         \* questionnaire(): request.form of the POST
    answers,      \* questionnaire(): the accepted answers dict
    errors,       \* questionnaire(): the error list
    phase,        \* position of the function under check: "input" or "done"
    qfiles,       \* questionnaire/<qid>.json, per identifier
    rfiles,       \* results/<qid>.csv, per identifier
    last,         \* the last request and its response
    call,         \* concurrent save_answers: each request's arguments
    pc,           \* concurrent save_answers: position of each request
    file_exists   \* concurrent save_answers: each request's local file_exists

vars == <<raw, normalized, questions, form, answers, errors, phase,
          qfiles, rfiles, last, call, pc, file_exists>>

(***************************************************************************)
(* Bounds of the model.                                                    *)
(***************************************************************************)
MaxStr == 2      \* length of the generated key and label strings
MaxRaw == 3      \* length of the generated raw question lists
MaxQs == 2       \* length of the question lists handed to the validator
MaxRows == 2     \* data rows a result log may hold before submissions stop

(***************************************************************************)
(* Characters and strings.                                                 *)
(***************************************************************************)
Uppers == <<"A","B","C","D","E","F","G","H","I","J","K","L","M",
            "N","O","P","Q","R","S","T","U","V","W","X","Y","Z">>
Lowers == <<"a","b","c","d","e","f","g","h","i","j","k","l","m",
            "n","o","p","q","r","s","t","u","v","w","x","y","z">>
DigitChars == <<"0","1","2","3","4","5","6","7","8","9">>

Range(s) == {s[i] : i \in DOMAIN s}

IsDigit(c) == c \in Range(DigitChars)

\* str.lower() on one character
Lower(c) ==
    IF c \in Range(Uppers)
    THEN Lowers[CHOOSE i \in DOMAIN Uppers : Uppers[i] = c]
    ELSE c

\* the character class [a-z0-9_] of slugify's first re.sub
IsSlugChar(c) == c \in Range(Lowers) \/ IsDigit(c) \/ c = "_"

RECURSIVE LStrip(_, _)
LStrip(s, cs) ==
    IF s # <<>> /\ Head(s) \in cs THEN LStrip(Tail(s), cs) ELSE s

RECURSIVE RStrip(_, _)
RStrip(s, cs) ==
    IF s # <<>> /\ s[Len(s)] \in cs
    THEN RStrip(SubSeq(s, 1, Len(s) - 1), cs)
    ELSE s

\* str.strip(chars)
StripChars(s, cs) == RStrip(LStrip(s, cs), cs)

\* str.strip()
Strip(s) == StripChars(s, {" "})

LowerStr(s) == [i \in DOMAIN s |-> Lower(s[i])]

\* re.sub(r"[^a-z0-9_]+", "_", text): each maximal run of other characters
\* becomes one underscore
RECURSIVE SubNonSlug(_, _)
SubNonSlug(s, inRun) ==
    IF s = <<>> THEN <<>>
    ELSE IF IsSlugChar(Head(s)) THEN <<Head(s)>> \o SubNonSlug(Tail(s), FALSE)
    ELSE IF inRun THEN SubNonSlug(Tail(s), TRUE)
    ELSE <<"_">> \o SubNonSlug(Tail(s), TRUE)

\* re.sub(r"_+", "_", text)
RECURSIVE SubUnderscores(_, _)
SubUnderscores(s, inRun) ==
    IF s = <<>> THEN <<>>
    ELSE IF Head(s) # "_" THEN <<Head(s)>> \o SubUnderscores(Tail(s), FALSE)
    ELSE IF inRun THEN SubUnderscores(Tail(s), TRUE)
    ELSE <<"_">> \o SubUnderscores(Tail(s), TRUE)

S_question == <<"q","u","e","s","t","i","o","n">>

slugify(text) ==
    LET t1 == LowerStr(Strip(text))
        t2 == SubNonSlug(t1, FALSE)
        t3 == StripChars(SubUnderscores(t2, FALSE), {"_"})
    IN  IF t3 = <<>> THEN S_question ELSE t3

\* str(n) for a natural number
RECURSIVE Digits(_)
Digits(n) ==
    IF n < 10 THEN <<DigitChars[n + 1]>>
    ELSE Digits(n \div 10) \o <<DigitChars[(n % 10) + 1]>>

(***************************************************************************)
(* JSON values and the Python operations the code applies to them.         *)
(***************************************************************************)
JNull == [t |-> "null"]
JStr(s) == [t |-> "str", s |-> s]
JBool(b) == [t |-> "bool", b |-> b]
JList(xs) == [t |-> "list", items |-> xs]
JDict(d) == [t |-> "dict", d |-> d]
JNum(n) == [t |-> "num", n |-> n]

\* truth value of a JSON value (None, "", False, [] and {} are falsy)
Truthy(v) ==
    CASE v.t = "null" -> FALSE
      [] v.t = "str" -> v.s # <<>>
      [] v.t = "bool" -> v.b
      [] v.t = "list" -> v.items # <<>>
      [] v.t = "dict" -> DOMAIN v.d # {}
      [] v.t = "num" -> v.n # 0

\* a or b
Or(a, b) == IF Truthy(a) THEN a ELSE b

\* str(v), for the values that reach it in the generated inputs
PyStr(v) ==
    CASE v.t = "str" -> v.s
      [] v.t = "null" -> <<"N","o","n","e">>
      [] v.t = "bool" -> IF v.b THEN <<"T","r","u","e">>
                                ELSE <<"F","a","l","s","e">>
      [] v.t = "num" -> Digits(v.n)

\* d.get(f) and d.get(f, default)
Get(d, f) == IF f \in DOMAIN d THEN d[f] ELSE JNull
GetD(d, f, default) == IF f \in DOMAIN d THEN d[f] ELSE default

EmptyStr == JStr(<<>>)
S_text == <<"t","e","x","t">>
S_number == <<"n","u","m","b","e","r">>
S_date == <<"d","a","t","e">>
S_choice == <<"c","h","o","i","c","e">>
S_multi == <<"m","u","l","t","i">>

SupportedTypes == {S_text, S_number, S_date, S_choice, S_multi}

(***************************************************************************)
(* normalize_questions                                                     *)
(***************************************************************************)
\* the deduplication with `if` in place of `while`: one suffix is tried
UniqueKey_TriedOnce(key, base_key, n, used_keys) ==
    IF key \notin used_keys THEN key
    ELSE base_key \o <<"_">> \o Digits(n)

\* the while loop that avoids duplicate keys
RECURSIVE UniqueKey(_, _, _, _)
UniqueKey(key, base_key, n, used_keys) ==
    IF key \notin used_keys THEN key
    ELSE UniqueKey(base_key \o <<"_">> \o Digits(n), base_key, n + 1, used_keys)

\* options = [str(o).strip() for o in options if str(o).strip()]
CleanOptions(options) ==
    IF options.t # "list" THEN <<>>
    ELSE LET F[k \in 0..Len(options.items)] ==
                 IF k = 0 THEN <<>>
                 ELSE LET o == Strip(PyStr(options.items[k]))
                      IN  IF o = <<>> THEN F[k - 1] ELSE Append(F[k - 1], o)
         IN  F[Len(options.items)]

\* key, label, desc, qtype, required and options of a new-format element
NewFormat(d) ==
    [key |-> Strip(PyStr(Or(Get(d, "key"), EmptyStr))),
     label |-> Strip(PyStr(Or(Or(Get(d, "label"), Get(d, "question")), EmptyStr))),
     desc |-> Strip(PyStr(Or(Or(Get(d, "description"), Get(d, "desc")), EmptyStr))),
     qtype |-> Strip(PyStr(Or(Get(d, "type"), JStr(S_text)))),
     required |-> Truthy(GetD(d, "required", JBool(FALSE))),
     options |-> Get(d, "options")]

\* the same fields of an old-format element
OldFormat(d, i) ==
    LET label == Strip(PyStr(Or(Or(Get(d, "question"), Get(d, "label")), EmptyStr)))
        options == Get(d, "options")
        key0 == Strip(PyStr(Or(Get(d, "key"), EmptyStr)))
        slug == slugify(label)
        fallback == IF slug = <<>> THEN <<"q">> \o Digits(i) ELSE slug
    IN  [key |-> IF key0 = <<>> THEN fallback ELSE key0,
         label |-> label,
         desc |-> Strip(PyStr(Or(Get(d, "description"), EmptyStr))),
         qtype |-> IF options.t = "list" /\ Len(options.items) > 0
                   THEN S_choice ELSE S_text,
         required |-> Truthy(GetD(d, "required", JBool(TRUE))),
         options |-> options]

IsNewFormat(d) ==
    "key" \in DOMAIN d /\ ("label" \in DOMAIN d \/ "question" \in DOMAIN d)

\* the fields read from element i, whichever its format
ReadElement(d, i) == IF IsNewFormat(d) THEN NewFormat(d) ELSE OldFormat(d, i)

\* the key of element i before deduplication (lines 117-119)
ResolveKey(key, i) == slugify(IF key = <<>> THEN <<"q">> \o Digits(i) ELSE key)

\* one retained element's output record
OutRecord(f, i, key) ==
    LET withOpts == f.qtype \in {S_choice, S_multi}
    IN  [id |-> i,
         key |-> key,
         label |-> f.label,
         description |-> f.desc,
         type |-> f.qtype,
         required |-> f.required,
         hasOptions |-> withOpts,
         options |-> IF withOpts THEN CleanOptions(f.options) ELSE <<>>]

\* the for loop over enumerate(raw, start=1)
RECURSIVE NormalizeLoop(_, _, _, _)
NormalizeLoop(items, i, acc, used_keys) ==
    IF i > Len(items) THEN acc
    ELSE IF items[i].t # "dict" THEN NormalizeLoop(items, i + 1, acc, used_keys)
    ELSE LET f == ReadElement(items[i].d, i)
         IN  IF f.label = <<>> THEN NormalizeLoop(items, i + 1, acc, used_keys)
             ELSE LET base_key == ResolveKey(f.key, i)
                      key == UniqueKey(base_key, base_key, 2, used_keys)
                  IN  NormalizeLoop(items, i + 1,
                                    Append(acc, OutRecord(f, i, key)),
                                    used_keys \cup {key})

normalize_questions(r) ==
    LET r1 == IF r.t = "dict" /\ "questions" \in DOMAIN r.d
              THEN r.d["questions"] ELSE r
    IN  IF r.t = "null" THEN <<>>
        ELSE IF r1.t # "list" THEN <<>>
        ELSE NormalizeLoop(r1.items, 1, <<>>, {})

(***************************************************************************)
(* The answer validator: the POST branch of questionnaire().               *)
(***************************************************************************)
\* request.form.get(name, "") and request.form.getlist(name); the form maps a
\* field name to the list of values posted under it
FormGet(f, name) ==
    IF name \in DOMAIN f /\ f[name] # <<>> THEN f[name][1] ELSE <<>>
FormGetList(f, name) == IF name \in DOMAIN f THEN f[name] ELSE <<>>

\* sep.join(parts)
RECURSIVE Join(_, _)
Join(parts, sep) ==
    IF parts = <<>> THEN <<>>
    ELSE IF Len(parts) = 1 THEN parts[1]
    ELSE parts[1] \o sep \o Join(Tail(parts), sep)

\* s.split(c) for a one-character separator
RECURSIVE Split(_, _)
Split(s, c) ==
    IF \A i \in DOMAIN s : s[i] # c THEN <<s>>
    ELSE LET k == CHOOSE i \in DOMAIN s :
                      s[i] = c /\ \A j \in 1..(i - 1) : s[j] # c
         IN  <<SubSeq(s, 1, k - 1)>> \o Split(SubSeq(s, k + 1, Len(s)), c)

\* [v.strip() for v in parts if v.strip()]
StripNonEmpty(parts) ==
    LET F[k \in 0..Len(parts)] ==
            IF k = 0 THEN <<>>
            ELSE IF Strip(parts[k]) = <<>> THEN F[k - 1]
            ELSE Append(F[k - 1], Strip(parts[k]))
    IN  F[Len(parts)]

\* value.replace(",", ".")
ReplaceComma(s) == [i \in DOMAIN s |-> IF s[i] = "," THEN "." ELSE s[i]]

\* digits, single underscores allowed between them
IsDigitPart(s) ==
    /\ s # <<>>
    /\ IsDigit(s[1]) /\ IsDigit(s[Len(s)])
    /\ \A i \in DOMAIN s : IsDigit(s[i]) \/ s[i] = "_"
    /\ \A i \in 1..(Len(s) - 1) : ~(s[i] = "_" /\ s[i + 1] = "_")

DropSign(s) == IF s # <<>> /\ s[1] \in {"+", "-"} THEN Tail(s) ELSE s

IsMantissa(s) ==
    IF \A i \in DOMAIN s : s[i] # "." THEN IsDigitPart(s)
    ELSE LET k == CHOOSE i \in DOMAIN s :
                      s[i] = "." /\ \A j \in 1..(i - 1) : s[j] # "."
             a == SubSeq(s, 1, k - 1)
             b == SubSeq(s, k + 1, Len(s))
         IN  \/ IsDigitPart(a) /\ (b = <<>> \/ IsDigitPart(b))
             \/ a = <<>> /\ IsDigitPart(b)

\* whether float(s) returns, for s without surrounding whitespace
ParsesAsFloat(s) ==
    LET body == DropSign(s)
        low == LowerStr(body)
    IN  \/ low \in {<<"i","n","f">>, <<"n","a","n">>,
                    <<"i","n","f","i","n","i","t","y">>}
        \/ IF \A i \in DOMAIN low : low[i] # "e" THEN IsMantissa(body)
           ELSE LET k == CHOOSE i \in DOMAIN low :
                             low[i] = "e" /\ \A j \in 1..(i - 1) : low[j] # "e"
                IN  /\ IsMantissa(SubSeq(body, 1, k - 1))
                    /\ IsDigitPart(DropSign(SubSeq(body, k + 1, Len(body))))

\* int(s) for a string of digits
RECURSIVE ToInt(_)
ToInt(s) ==
    IF s = <<>> THEN 0
    ELSE 10 * ToInt(SubSeq(s, 1, Len(s) - 1))
         + (CHOOSE d \in 0..9 : DigitChars[d + 1] = s[Len(s)])

AllDigits(s) == \A i \in DOMAIN s : IsDigit(s[i])

IsLeap(y) == y % 4 = 0 /\ (y % 100 # 0 \/ y % 400 = 0)

DaysIn(y, m) ==
    IF m = 2 THEN (IF IsLeap(y) THEN 29 ELSE 28)
    ELSE IF m \in {4, 6, 9, 11} THEN 30 ELSE 31

\* whether datetime.strptime(s, "%Y-%m-%d") returns
ParsesAsDate(s) ==
    LET p == Split(s, "-")
    IN  /\ Len(p) = 3
        /\ Len(p[1]) = 4 /\ AllDigits(p[1])
        /\ Len(p[2]) \in {1, 2} /\ AllDigits(p[2])
        /\ ToInt(p[2]) \in 1..12
        /\ LET dd == IF Len(p[3]) = 2 /\ p[3][1] = " " THEN Tail(p[3]) ELSE p[3]
           IN  /\ Len(p[3]) \in {1, 2} /\ AllDigits(dd)
               /\ ToInt(p[1]) >= 1
               /\ ToInt(dd) \in 1..DaysIn(ToInt(p[1]), ToInt(p[2]))

Err(msg, label) == [msg |-> msg, label |-> label]

\* the value read for one question
ReadValue(q, f) ==
    IF q.type = S_multi
    THEN Strip(Join(StripNonEmpty(FormGetList(f, q.key \o <<"[","]">>)),
                    <<" ","|"," ">>))
    ELSE Strip(FormGet(f, q.key))

\* the type check of a non-empty value: the error it appends, or none
TypeError(q, value) ==
    LET opts == q.options
    IN  CASE q.type = S_number ->
                 IF ParsesAsFloat(ReplaceComma(value)) THEN <<>>
                 ELSE <<Err("doit etre un nombre valide", q.label)>>
          [] q.type = S_date ->
                 IF ParsesAsDate(value) THEN <<>>
                 ELSE <<Err("doit etre une date valide", q.label)>>
          [] q.type = S_choice ->
                 IF opts # <<>> /\ value \notin Range(opts)
                 THEN <<Err("Reponse invalide", q.label)>> ELSE <<>>
          [] q.type = S_multi ->
                 LET chosen == StripNonEmpty(Split(value, "|"))
                     invalid == {i \in DOMAIN chosen : chosen[i] \notin Range(opts)}
                 IN  IF opts # <<>> /\ invalid # {}
                     THEN <<Err("Reponses invalides", q.label)>> ELSE <<>>
          [] OTHER -> <<>>

\* one iteration of the loop over the questions: the answers and errors after it
ValidateOne(q, f, ans, errs) ==
    LET value == ReadValue(q, f)
    IN  IF q.required /\ value = <<>>
        THEN [answers |-> ans,
              errors |-> Append(errs, Err("est obligatoire", q.label))]
        ELSE IF value = <<>>
        THEN [answers |-> (q.key :> <<>>) @@ ans, errors |-> errs]
        ELSE IF TypeError(q, value) # <<>>
        THEN [answers |-> ans, errors |-> errs \o TypeError(q, value)]
        ELSE [answers |-> (q.key :> value) @@ ans, errors |-> errs]

NoAnswers == [k \in {} |-> <<>>]

\* the loop leaving at the first error (`break` in place of `continue`)
RECURSIVE ValidateLoop_FailFast(_, _, _, _, _)
ValidateLoop_FailFast(qs, i, f, ans, errs) ==
    IF i > Len(qs) \/ errs # <<>> THEN [answers |-> ans, errors |-> errs]
    ELSE LET r == ValidateOne(qs[i], f, ans, errs)
         IN  ValidateLoop_FailFast(qs, i + 1, f, r.answers, r.errors)

\* the loop over the questions
RECURSIVE ValidateLoop(_, _, _, _, _)
ValidateLoop(qs, i, f, ans, errs) ==
    IF i > Len(qs) THEN [answers |-> ans, errors |-> errs]
    ELSE LET r == ValidateOne(qs[i], f, ans, errs)
         IN  ValidateLoop(qs, i + 1, f, r.answers, r.errors)

Validate(qs, f) == ValidateLoop(qs, 1, f, NoAnswers, <<>>)

(***************************************************************************)
(* Values of the variables a specification does not use.                   *)
(***************************************************************************)
Qids == {<<"q","1">>}
Requests == {1, 2}

NoFile == [t |-> "nofile"]
NoLog == [exists |-> FALSE, lines |-> <<>>]
NoRequest ==
    [op |-> "none", method |-> "GET", admin |-> FALSE, qid |-> <<>>, code |-> 200,
     flash |-> "", errors |-> <<>>, form |-> NoAnswers]
NoCall == [qid |-> <<>>, questions |-> <<>>, answers |-> NoAnswers, user |-> 0]

IdleFunctions ==
    /\ raw = JNull /\ normalized = <<>> /\ phase = "idle"
    /\ questions = <<>> /\ form = NoAnswers /\ answers = NoAnswers /\ errors = <<>>
IdleFiles ==
    /\ qfiles = [q \in Qids |-> NoFile]
    /\ rfiles = [q \in Qids |-> NoLog]
    /\ last = NoRequest
IdleRequests ==
    /\ call = [r \in Requests |-> NoCall]
    /\ pc = [r \in Requests |-> "idle"]
    /\ file_exists = [r \in Requests |-> FALSE]

(***************************************************************************)
(* Inputs of normalize_questions.                                          *)
(***************************************************************************)
Alphabet == {"a", "A", "_", " ", "?"}

RECURSIVE StringsUpTo(_)
StringsUpTo(n) ==
    IF n = 0 THEN {<<>>}
    ELSE LET shorter == StringsUpTo(n - 1)
         IN  shorter \cup {Append(s, c) : s \in shorter, c \in Alphabet}

Strings == StringsUpTo(MaxStr)

Absent == [t |-> "absent"]
NoFields == [x \in {} |-> JNull]
Field(name, v) == IF v = Absent THEN NoFields ELSE name :> v

\* a question element with the given fields, each possibly absent
Element(key, label, question, type, required, options) ==
    JDict(Field("key", key) @@ Field("label", label) @@ Field("question", question)
          @@ Field("type", type) @@ Field("required", required)
          @@ Field("options", options))

LabelL == JStr(<<"L">>)

\* elements that provide no key, with every generated label
NoKeyElements ==
    {Element(k, l, Absent, Absent, Absent, Absent) :
        k \in {Absent, JNull, EmptyStr, JStr(<<" ">>)},
        l \in {JStr(s) : s \in Strings} \cup {JNull}}
    \cup {Element(k, Absent, l, Absent, Absent, Absent) :
        k \in {Absent, EmptyStr},
        l \in {JStr(<<"a">>), JStr(<<"?">>), JStr(<<" ">>), JNull}}

\* elements that provide every generated key
KeyElements ==
    {Element(JStr(k), LabelL, Absent, Absent, Absent, Absent) : k \in Strings}

TypeValues ==
    {Absent, JNull} \cup {JStr(ty) : ty \in SupportedTypes}
    \cup {JStr(<<"f","o","o">>), JStr(<<" ">> \o S_multi \o <<" ">>),
          JStr(<<"C","h","o","i","c","e">>), EmptyStr}

OptionValues ==
    {Absent, JNull, JList(<<>>), JStr(<<"A">>),
     JList(<<JStr(<<"A">>), JStr(<<" ","B"," ">>)>>),
     JList(<<EmptyStr, JStr(<<"A","|","B">>)>>)}

\* elements of both formats with every generated type and options value
TypeElements ==
    {Element(k, LabelL, Absent, ty, rq, op) :
        k \in {Absent, JStr(<<"k">>)}, ty \in TypeValues,
        rq \in {Absent, JBool(TRUE)}, op \in OptionValues}

\* a few elements whose keys collide, for the lists of every length
CoreElements ==
    {Element(JStr(<<"a">>), LabelL, Absent, Absent, Absent, Absent),
     Element(JStr(<<"A","?">>), LabelL, Absent, Absent, Absent, Absent),
     Element(JStr(<<"a","_","2">>), LabelL, Absent, Absent, Absent, Absent),
     Element(EmptyStr, LabelL, Absent, Absent, Absent, Absent),
     Element(Absent, JStr(<<"a">>), Absent, Absent, Absent, Absent),
     Element(Absent, Absent, JStr(<<"q","2">>), Absent, Absent, Absent),
     Element(Absent, JStr(<<" ">>), Absent, Absent, Absent, Absent),
     JStr(<<"x">>)}

RECURSIVE ListsUpTo(_, _)
ListsUpTo(S, n) ==
    IF n = 0 THEN {<<>>}
    ELSE LET shorter == ListsUpTo(S, n - 1)
         IN  shorter \cup {Append(l, e) : l \in shorter, e \in S}

RawLists ==
    ListsUpTo(CoreElements, MaxRaw)
    \cup {<<e>> : e \in NoKeyElements \cup KeyElements \cup TypeElements}
    \cup {<<JNull, e>> : e \in NoKeyElements \cup KeyElements}

RawInputs ==
    {JList(l) : l \in RawLists}
    \cup {JDict("questions" :> JList(l)) : l \in ListsUpTo(CoreElements, 1)}
    \cup {JNull, JStr(<<"x">>), JDict("title" :> JStr(<<"x">>)),
          JDict("questions" :> JStr(<<"x">>))}

InitNorm ==
    /\ raw \in RawInputs
    /\ normalized = <<>>
    /\ phase = "input"
    /\ questions = <<>> /\ form = NoAnswers /\ answers = NoAnswers /\ errors = <<>>
    /\ IdleFiles /\ IdleRequests

\* normalize_questions(raw) is called and returns
Normalize ==
    /\ phase = "input"
    /\ normalized' = normalize_questions(raw)
    /\ phase' = "done"
    /\ UNCHANGED <<raw, questions, form, answers, errors, qfiles, rfiles, last,
                   call, pc, file_exists>>

NextNorm == Normalize

SpecNorm == InitNorm /\ [][NextNorm]_vars

(***************************************************************************)
(* Inputs of the validator: normalized question lists and posted forms.    *)
(***************************************************************************)
OptionsAB == JList(<<JStr(<<"A">>), JStr(<<"B">>)>>)
OptionsBar == JList(<<JStr(<<"A","|","B">>), JStr(<<"C">>)>>)

Question(label, type, required, options) ==
    Element(JStr(label), JStr(label), Absent, JStr(type), JBool(required), options)

ValElements ==
    {Question(<<"t">>, S_text, TRUE, Absent),
     Question(<<"n">>, S_number, FALSE, Absent),
     Question(<<"d">>, S_date, TRUE, Absent),
     Question(<<"c">>, S_choice, FALSE, OptionsAB),
     Question(<<"m">>, S_multi, TRUE, OptionsAB),
     Question(<<"p">>, S_multi, FALSE, OptionsBar),
     Question(<<"o">>, S_multi, FALSE, Absent),
     Question(<<"f">>, <<"f","o","o">>, FALSE, Absent)}

ValQuestionLists ==
    {normalize_questions(JList(l)) : l \in ListsUpTo(ValElements, MaxQs)} \ {<<>>}

\* the value lists a browser may post for a question of each type
ValueLists(q) ==
    CASE q.type = S_number ->
             {<<>>, << <<"1","2",",","5">> >>, << <<"1",".","5">> >>, << <<"x">> >>}
      [] q.type = S_date ->
             {<<>>, << <<"2","0","2","4","-","0","2","-","2","9">> >>,
              << <<"2","0","2","3","-","0","2","-","2","9">> >>}
      [] q.type = S_choice ->
             {<<>>, << <<"A">> >>, << <<" ","B"," ">> >>, << <<"x">> >>}
      [] q.type = S_multi ->
             {<<>>, << <<" ">> >>, << <<"A">>, <<"B">> >>, << <<" ","A"," ">> >>,
              << <<"A"," ","|"," ","B">> >>, << <<"A","|","B">> >>,
              << <<"C">>, <<"A","|","B">> >>, << <<"x">>, <<"A">> >>}
      [] OTHER -> {<<>>, << <<" ">> >>, << <<"x">> >>}

\* the form field a question is read from
FieldName(q) == IF q.type = S_multi THEN q.key \o <<"[","]">> ELSE q.key

RECURSIVE FormsFrom(_, _)
FormsFrom(qs, i) ==
    IF i > Len(qs) THEN {NoAnswers}
    ELSE {(FieldName(qs[i]) :> v) @@ f :
              v \in ValueLists(qs[i]), f \in FormsFrom(qs, i + 1)}

Forms(qs) == FormsFrom(qs, 1)

InitVal ==
    /\ questions \in ValQuestionLists
    /\ form \in Forms(questions)
    /\ answers = NoAnswers /\ errors = <<>>
    /\ phase = "input"
    /\ raw = JNull /\ normalized = <<>>
    /\ IdleFiles /\ IdleRequests

\* the validation pass of one POST
ValidatePass ==
    /\ phase = "input"
    /\ answers' = Validate(questions, form).answers
    /\ errors' = Validate(questions, form).errors
    /\ phase' = "done"
    /\ UNCHANGED <<raw, normalized, questions, form, qfiles, rfiles, last,
                   call, pc, file_exists>>

NextVal == ValidatePass

SpecVal == InitVal /\ [][NextVal]_vars

(***************************************************************************)
(* Properties of normalize_questions, checked under SpecNorm.              *)
(***************************************************************************)
\* the list the loop runs over
RawItems ==
    IF raw.t = "dict" /\ "questions" \in DOMAIN raw.d /\ raw.d["questions"].t = "list"
    THEN raw.d["questions"].items
    ELSE IF raw.t = "list" THEN raw.items ELSE <<>>

\* C2: the keys of the returned questions are pairwise distinct, non-empty and
\* each matches ^[a-z0-9_]+$, whatever the raw keys and labels are.
C2_KeysUniqueAndSlugified ==
    phase = "done" =>
        \A i \in DOMAIN normalized :
            /\ normalized[i].key # <<>>
            /\ \A k \in DOMAIN normalized[i].key : IsSlugChar(normalized[i].key[k])
            /\ \A j \in DOMAIN normalized : i # j => normalized[i].key # normalized[j].key

\* three elements whose keys all resolve to "a": the third gets the suffix _3
C2_Witness ==
    /\ phase = "done"
    /\ Len(normalized) = 3
    /\ normalized[1].key = <<"a">>
    /\ normalized[3].key = <<"a","_","3">>

\* C3: every returned question has one of the five supported types.
C3_TypeIsSupported ==
    phase = "done" =>
        \A i \in DOMAIN normalized : normalized[i].type \in SupportedTypes

\* whether the raw element gives no key: absent, null or empty after trimming
ProvidesNoKey(d) == Strip(PyStr(Or(Get(d, "key"), EmptyStr))) = <<>>

\* C8: a retained element that provides no key gets the slugified label as its
\* key (then deduplicated against the keys returned before it), in both formats.
C8_MissingKeyIsSlugifiedLabel ==
    phase = "done" =>
        \A n \in DOMAIN normalized :
            LET d == RawItems[normalized[n].id].d
                slug == slugify(normalized[n].label)
                used == {normalized[m].key : m \in 1..(n - 1)}
            IN  ProvidesNoKey(d) => normalized[n].key = UniqueKey(slug, slug, 2, used)

(***************************************************************************)
(* Properties of the validation pass, checked under SpecVal.               *)
(***************************************************************************)
\* the selections posted for a question, trimmed, the blank ones dropped
Selections(q) == StripNonEmpty(FormGetList(form, q.key \o <<"[","]">>))

\* C6: a multi question with declared options, answered with declared options
\* only, records no error and stores the selections joined with " | "; posting
\* the stored string as the single selection is accepted as well.
C6_MultiRoundTrip ==
    phase = "done" =>
        \A i \in DOMAIN questions :
            LET q == questions[i]
                sel == Selections(q)
                stored == Join(sel, <<" ","|"," ">>)
                again == Validate(<<q>>, (q.key \o <<"[","]">>) :> <<stored>>)
            IN  (/\ q.type = S_multi /\ q.options # <<>> /\ sel # <<>>
                 /\ \A k \in DOMAIN sel : sel[k] \in Range(q.options))
                => /\ q.key \in DOMAIN answers
                   /\ answers[q.key] = stored
                   /\ again.errors = <<>>

\* whether the value posted for a question is empty after trimming
PostedEmpty(q) ==
    IF q.type = S_multi THEN Selections(q) = <<>>
    ELSE Strip(FormGet(form, q.key)) = <<>>

ErrorsFor(label) == {e \in DOMAIN errors : errors[e].label = label}
Rejected(label) ==
    {i \in DOMAIN questions :
        questions[i].label = label /\ questions[i].key \notin DOMAIN answers}

\* C9: every question yields exactly one outcome, an error or an accepted entry:
\* errors plus accepted entries count the questions, each label has as many
\* errors as questions without an entry, and a required question posted empty
\* has its error and no entry.
C9_OneOutcomePerQuestion ==
    phase = "done" =>
        /\ Len(errors) + Cardinality(DOMAIN answers) = Len(questions)
        /\ DOMAIN answers \subseteq {questions[i].key : i \in DOMAIN questions}
        /\ \A i \in DOMAIN questions :
               LET q == questions[i]
               IN  /\ Cardinality(ErrorsFor(q.label)) = Cardinality(Rejected(q.label))
                   /\ (q.required /\ PostedEmpty(q)) =>
                          /\ q.key \notin DOMAIN answers
                          /\ \E e \in ErrorsFor(q.label) :
                                 errors[e].msg = "est obligatoire"

\* a required first question posted empty and a second question still accepted
C9_Witness ==
    /\ phase = "done"
    /\ Len(questions) = 2
    /\ questions[1].required /\ PostedEmpty(questions[1])
    /\ Len(errors) = 1
    /\ questions[2].key \in DOMAIN answers

(***************************************************************************)
(* Files, users and the helpers of the request handlers.                   *)
(***************************************************************************)
BadJson == [t |-> "bad"]                    \* a file json.load cannot parse
JsonFile(v) == [t |-> "json", v |-> v]

Users ==
    {[id |-> 1, first_name |-> <<"A","d","a">>, email |-> <<"a","@","x">>,
      is_admin |-> TRUE],
     [id |-> 2, first_name |-> <<"B","o","b">>, email |-> <<"b","@","x">>,
      is_admin |-> FALSE]}

\* load_questions, from the content of questionnaire/<qid>.json: found is
\* FALSE where the code returns None
LoadFrom(file) ==
    IF file.t = "nofile" THEN [found |-> FALSE, questions |-> <<>>]
    ELSE IF file.t = "bad" THEN [found |-> TRUE, questions |-> <<>>]
    ELSE [found |-> TRUE, questions |-> normalize_questions(file.v)]

load_questions(qid) == LoadFrom(qfiles[qid])

\* datetime.now().strftime("%d/%m/%Y") on the day of the run
Today == <<"0","4","/","1","1","/","2","0","2","6">>

MetaNames ==
    <<S_date, <<"u","s","e","r","_","i","d">>,
      <<"u","s","e","r","_","n","a","m","e">>,
      <<"u","s","e","r","_","e","m","a","i","l">> >>

\* A log is the sequence of its CSV records, each the sequence of its cells:
\* csv.DictWriter quotes a cell that holds the delimiter, a quote or a line
\* break, so the records and cells read back are those written.
\* fieldnames of save_answers
FieldNames(qs) == MetaNames \o [i \in DOMAIN qs |-> qs[i].key]

\* the row dict of save_answers: the question keys are assigned last
RowDict(qs, ans, user) ==
    [k \in {qs[i].key : i \in DOMAIN qs} |->
        IF k \in DOMAIN ans THEN ans[k] ELSE <<>>]
    @@ (MetaNames[1] :> Today) @@ (MetaNames[2] :> Digits(user.id))
    @@ (MetaNames[3] :> user.first_name) @@ (MetaNames[4] :> user.email)

\* the cells writer.writerow(row) writes, one per field name
WrittenRow(qs, ans, user) ==
    [i \in DOMAIN FieldNames(qs) |-> RowDict(qs, ans, user)[FieldNames(qs)[i]]]

\* the lines always written with a header, whatever file_exists says
WrittenLines_AlwaysHeader(exists, qs, ans, user) ==
    <<FieldNames(qs), WrittenRow(qs, ans, user)>>

\* the lines one save_answers call writes, given its file_exists
WrittenLines(exists, qs, ans, user) ==
    (IF ~exists THEN <<FieldNames(qs)>> ELSE <<>>) \o <<WrittenRow(qs, ans, user)>>

\* save_answers run without interruption: the log after it
save_answers(log, qs, ans, user) ==
    [exists |-> TRUE,
     lines |-> log.lines \o WrittenLines(log.exists, qs, ans, user)]

\* the data rows of a log
DataRows(log) == IF log.exists THEN Len(log.lines) - 1 ELSE 0

\* what the model keeps of a request and its response: the handler, the
\* method, current_user.is_admin, the identifier, the status code, the message
\* flashed, the validation errors flashed and the answers posted
Response(op, method, u, qid, code, flash, errs, f) ==
    [op |-> op, method |-> method, admin |-> u.is_admin, qid |-> qid,
     code |-> code, flash |-> flash, errors |-> errs, form |-> f]

FunctionsIdle ==
    UNCHANGED <<raw, normalized, questions, form, answers, errors, phase>>
RequestsIdle == UNCHANGED <<call, pc, file_exists>>

\* the values posted for a question by the sequential requests: one the
\* validator rejects and one it accepts
SubmitValues(q) ==
    CASE q.type = S_number -> {<< <<"x">> >>, << <<"1","2",",","5">> >>}
      [] q.type = S_choice -> {<<>>, << <<"A">> >>}
      [] OTHER -> {<<>>, << <<"x">> >>}

RECURSIVE SubmitFormsFrom(_, _)
SubmitFormsFrom(qs, i) ==
    IF i > Len(qs) THEN {NoAnswers}
    ELSE {(FieldName(qs[i]) :> v) @@ f :
              v \in SubmitValues(qs[i]), f \in SubmitFormsFrom(qs, i + 1)}

SubmitForms(qs) == SubmitFormsFrom(qs, 1)

(***************************************************************************)
(* questionnaire(qid): GET renders the form, POST validates and saves.     *)
(***************************************************************************)
\* the POST branch saving whatever the validation pass found
QuestionnairePost_SaveAnyway(u, qid, f) ==
    LET loaded == load_questions(qid)
        r == Validate(loaded.questions, f)
    IN  /\ loaded.found /\ loaded.questions # <<>>
        /\ rfiles' = [rfiles EXCEPT
                         ![qid] = save_answers(@, loaded.questions, r.answers, u)]
        /\ last' = Response("submit", "POST", u, qid, 302,
                            IF r.errors # <<>> THEN "errors" ELSE "merci",
                            r.errors, f)

\* the POST branch: validate, then flash the errors or save the answers
QuestionnairePost(u, qid, f) ==
    LET loaded == load_questions(qid)
        r == Validate(loaded.questions, f)
    IN  /\ loaded.found /\ loaded.questions # <<>>
        /\ IF r.errors # <<>>
           THEN /\ rfiles' = rfiles
                /\ last' = Response("submit", "POST", u, qid, 200, "errors",
                                    r.errors, f)
           ELSE /\ rfiles' = [rfiles EXCEPT
                                 ![qid] = save_answers(@, loaded.questions,
                                                       r.answers, u)]
                /\ last' = Response("submit", "POST", u, qid, 302, "merci", <<>>, f)

Questionnaire(u, qid, method) ==
    /\ DataRows(rfiles[qid]) < MaxRows
    /\ LET loaded == load_questions(qid)
       IN  \/ /\ ~loaded.found
              /\ rfiles' = rfiles
              /\ last' = Response("submit", method, u, qid, 302, "introuvable",
                                  <<>>, NoAnswers)
           \/ /\ loaded.found /\ loaded.questions = <<>>
              /\ rfiles' = rfiles
              /\ last' = Response("submit", method, u, qid, 302, "vide",
                                  <<>>, NoAnswers)
           \/ /\ loaded.found /\ loaded.questions # <<>> /\ method = "GET"
              /\ rfiles' = rfiles
              /\ last' = Response("submit", method, u, qid, 200, "", <<>>, NoAnswers)
           \/ /\ method = "POST"
              /\ \E f \in SubmitForms(loaded.questions) : QuestionnairePost(u, qid, f)
    /\ UNCHANGED qfiles
    /\ FunctionsIdle /\ RequestsIdle

(***************************************************************************)
(* The admin handlers.                                                     *)
(***************************************************************************)
\* the handler without its is_admin check
AdminDelete_NoCheck(u, qid) ==
    /\ qfiles' = [qfiles EXCEPT ![qid] = NoFile]
    /\ rfiles' = [rfiles EXCEPT ![qid] = NoLog]
    /\ last' = Response("delete", "POST", u, qid, 302,
                        IF qfiles[qid].t # "nofile" THEN "supprime"
                        ELSE "introuvable",
                        <<>>, NoAnswers)
    /\ FunctionsIdle /\ RequestsIdle

\* admin_delete_questionnaire(qid)
AdminDelete(u, qid) ==
    /\ IF ~u.is_admin
       THEN /\ UNCHANGED <<qfiles, rfiles>>
            /\ last' = Response("delete", "POST", u, qid, 403, "", <<>>, NoAnswers)
       ELSE /\ qfiles' = [qfiles EXCEPT ![qid] = NoFile]
            /\ rfiles' = [rfiles EXCEPT ![qid] = NoLog]
            /\ last' = Response("delete", "POST", u, qid, 302,
                                IF qfiles[qid].t # "nofile" THEN "supprime"
                                ELSE "introuvable",
                                <<>>, NoAnswers)
    /\ FunctionsIdle /\ RequestsIdle

\* admin_questionnaire_results(qid): reads the log and changes no file
AdminResults(u, qid) ==
    /\ UNCHANGED <<qfiles, rfiles>>
    /\ last' = Response("results", "GET", u, qid,
                        IF ~u.is_admin THEN 403 ELSE 200,
                        IF u.is_admin /\ ~rfiles[qid].exists THEN "aucun resultat"
                        ELSE "",
                        <<>>, NoAnswers)
    /\ FunctionsIdle /\ RequestsIdle

\* admin_download_results(qid): sends the log and changes no file
AdminDownload(u, qid) ==
    /\ UNCHANGED <<qfiles, rfiles>>
    /\ last' = Response("download", "GET", u, qid,
                        IF ~u.is_admin THEN 403
                        ELSE IF ~rfiles[qid].exists THEN 302 ELSE 200,
                        IF u.is_admin /\ ~rfiles[qid].exists THEN "aucun fichier"
                        ELSE "",
                        <<>>, NoAnswers)
    /\ FunctionsIdle /\ RequestsIdle

\* the JSON object json.dump writes for one normalized question
ToJson(o) ==
    JDict(("id" :> JNum(o.id)) @@ ("key" :> JStr(o.key)) @@ ("label" :> JStr(o.label))
          @@ ("description" :> JStr(o.description)) @@ ("type" :> JStr(o.type))
          @@ ("required" :> JBool(o.required))
          @@ (IF o.hasOptions
              THEN "options" :> JList([k \in DOMAIN o.options |-> JStr(o.options[k])])
              ELSE NoFields))

S_label_ == <<"l","a","b","e","l","_">>
S_key_ == <<"k","e","y","_">>
S_desc_ == <<"d","e","s","c","_">>
S_type_ == <<"t","y","p","e","_">>
S_required_ == <<"r","e","q","u","i","r","e","d","_">>
S_option_ == <<"o","p","t","i","o","n","_">>
S_qid == <<"q","i","d">>

\* the inner loop of admin_create_questionnaire over option_<idx>_<opt_i>
RECURSIVE CreateOptions(_, _, _, _)
CreateOptions(f, idx, opt_i, options) ==
    LET name == S_option_ \o Digits(idx) \o <<"_">> \o Digits(opt_i)
    IN  IF name \notin DOMAIN f \/ f[name] = <<>> THEN options
        ELSE LET opt == Strip(f[name][1])
             IN  CreateOptions(f, idx, opt_i + 1,
                               IF opt # <<>> THEN Append(options, JStr(opt))
                               ELSE options)

\* the loop of admin_create_questionnaire over label_<idx>, key_<idx>, ...
RECURSIVE CreateLoop(_, _, _)
CreateLoop(f, idx, qs) ==
    LET label == Strip(FormGet(f, S_label_ \o Digits(idx)))
        key == Strip(FormGet(f, S_key_ \o Digits(idx)))
        desc == Strip(FormGet(f, S_desc_ \o Digits(idx)))
        type0 == FormGet(f, S_type_ \o Digits(idx))
        qtype == Strip(IF type0 = <<>> THEN S_text ELSE type0)
        required == FormGet(f, S_required_ \o Digits(idx)) # <<>>
        key2 == slugify(IF key = <<>> THEN slugify(label) ELSE key)
        q == ("key" :> JStr(key2)) @@ ("label" :> JStr(label))
             @@ ("description" :> JStr(desc)) @@ ("type" :> JStr(qtype))
             @@ ("required" :> JBool(required))
             @@ (IF qtype \in {S_choice, S_multi}
                 THEN "options" :> JList(CreateOptions(f, idx, 1, <<>>))
                 ELSE NoFields)
    IN  IF label = <<>> /\ key = <<>> /\ desc = <<>> /\ idx > 1 THEN qs
        ELSE IF label = <<>> THEN CreateLoop(f, idx + 1, qs)
        ELSE CreateLoop(f, idx + 1, Append(qs, JDict(q)))

\* admin_create_questionnaire
AdminCreate(u, method, f) ==
    LET qid == slugify(FormGet(f, S_qid))
        created == CreateLoop(f, 1, <<>>)
        norm == normalize_questions(JDict("questions" :> JList(created)))
        payload == JDict("questions" :> JList([i \in DOMAIN norm |-> ToJson(norm[i])]))
        writes == /\ u.is_admin /\ method = "POST"
                  /\ qfiles[qid].t = "nofile"
                  /\ created # <<>> /\ norm # <<>>
    IN  /\ qid \in Qids
        /\ qfiles' = IF writes THEN [qfiles EXCEPT ![qid] = JsonFile(payload)]
                     ELSE qfiles
        /\ UNCHANGED rfiles
        /\ last' = Response("create", method, u, qid,
                            IF ~u.is_admin THEN 403
                            ELSE IF method = "GET" THEN 200 ELSE 302,
                            IF ~u.is_admin \/ method = "GET" THEN ""
                            ELSE IF qfiles[qid].t # "nofile" THEN "existe deja"
                            ELSE IF created = <<>> THEN "ajoute une question"
                            ELSE IF norm = <<>> THEN "questions invalides"
                            ELSE "cree",
                            <<>>, NoAnswers)
        /\ FunctionsIdle /\ RequestsIdle

NoUpload == [filename |-> <<>>, content |-> NoFile]

HasDot(name) == \E i \in DOMAIN name : name[i] = "."
LastDot(name) ==
    CHOOSE i \in DOMAIN name :
        name[i] = "." /\ \A j \in (i + 1)..Len(name) : name[j] # "."

\* allowed_file
allowed_file(filename) ==
    /\ HasDot(filename)
    /\ LowerStr(SubSeq(filename, LastDot(filename) + 1, Len(filename)))
           \in {<<"j","s","o","n">>}

\* os.path.splitext(filename)[0], for a name that holds a dot after its start
SplitextStem(filename) == SubSeq(filename, 1, LastDot(filename) - 1)

\* admin_upload_questionnaire: file.save overwrites questionnaire/<filename>
\* and leaves the result log alone
AdminUpload(u, method, file) ==
    LET saves == /\ u.is_admin /\ method = "POST"
                 /\ file.filename # <<>>
                 /\ allowed_file(file.filename)
        qid == IF HasDot(file.filename) THEN SplitextStem(file.filename)
               ELSE file.filename
    IN  /\ saves => qid \in Qids
        /\ qfiles' = IF saves THEN [qfiles EXCEPT ![qid] = file.content]
                     ELSE qfiles
        /\ UNCHANGED rfiles
        /\ last' = Response("upload", method, u, qid,
                            IF ~u.is_admin THEN 403
                            ELSE IF method = "GET" THEN 200 ELSE 302,
                            IF ~u.is_admin \/ method = "GET" THEN ""
                            ELSE IF file.filename = <<>> THEN "aucun fichier"
                            ELSE IF ~allowed_file(file.filename) THEN "json seulement"
                            ELSE IF LoadFrom(file.content).questions = <<>>
                            THEN "non reconnu, importe"
                            ELSE "importe",
                            <<>>, NoAnswers)
        /\ FunctionsIdle /\ RequestsIdle

(***************************************************************************)
(* The requests the handlers are driven with.                              *)
(***************************************************************************)
CreateEntry(idx, label, key, type, required, options) ==
    ((S_label_ \o Digits(idx)) :> <<label>>) @@ ((S_key_ \o Digits(idx)) :> <<key>>)
    @@ ((S_desc_ \o Digits(idx)) :> << <<>> >>)
    @@ ((S_type_ \o Digits(idx)) :> <<type>>)
    @@ (IF required THEN (S_required_ \o Digits(idx)) :> << <<"o","n">> >>
        ELSE NoAnswers)
    @@ [n \in {S_option_ \o Digits(idx) \o <<"_">> \o Digits(k) :
                   k \in DOMAIN options} |->
          <<options[CHOOSE k \in DOMAIN options :
                        n = S_option_ \o Digits(idx) \o <<"_">> \o Digits(k)]>>]

CreateForms ==
    {(S_qid :> << <<" ","Q","1"," ">> >>)
        @@ CreateEntry(1, <<>>, <<>>, S_text, FALSE, <<>>)
        @@ CreateEntry(2, <<"a","?">>, <<>>, S_choice, TRUE,
                       << <<"A">>, <<" ">>, <<"B"," ">> >>),
     (S_qid :> << <<"q","1">> >>)}

LegacyA ==
    Element(Absent, Absent, JStr(<<"a">>), Absent, Absent,
            JList(<<JStr(<<"A">>), JStr(<<"B">>)>>))
KeyedB ==
    Element(JStr(<<"b">>), JStr(<<"B">>), Absent, JStr(S_number), JBool(TRUE), Absent)

UploadContents ==
    {BadJson, JsonFile(JList(<<LegacyA>>)), JsonFile(JList(<<LegacyA, KeyedB>>))}

UploadFiles ==
    {NoUpload}
    \cup {[filename |-> n, content |-> c] :
            n \in {<<"q","1",".","j","s","o","n">>, <<"q","1",".","t","x","t">>},
            c \in UploadContents}

Methods == {"GET", "POST"}

Init ==
    /\ qfiles = [q \in Qids |-> NoFile]
    /\ rfiles = [q \in Qids |-> NoLog]
    /\ last = NoRequest
    /\ IdleFunctions /\ IdleRequests

Next ==
    \/ \E u \in Users, qid \in Qids, m \in Methods : Questionnaire(u, qid, m)
    \/ \E u \in Users, qid \in Qids : AdminDelete(u, qid)
    \/ \E u \in Users, qid \in Qids : AdminResults(u, qid)
    \/ \E u \in Users, qid \in Qids : AdminDownload(u, qid)
    \/ \E u \in Users, m \in Methods, f \in CreateForms : AdminCreate(u, m, f)
    \/ \E u \in Users, m \in Methods, file \in UploadFiles : AdminUpload(u, m, file)

Spec == Init /\ [][Next]_vars

(***************************************************************************)
(* Properties of the request handlers, checked under Spec.                 *)
(***************************************************************************)
\* a line holding the four metadata column names: the header writeheader writes
IsHeaderLine(line) == Len(line) >= 4 /\ SubSeq(line, 1, 4) = MetaNames
HeaderCount(lines) == Cardinality({i \in DOMAIN lines : IsHeaderLine(lines[i])})

\* the step is a POST to a questionnaire that exists with a non-empty list
IsSubmission ==
    /\ last'.op = "submit" /\ last'.method = "POST"
    /\ LoadFrom(qfiles[last'.qid]).found
    /\ LoadFrom(qfiles[last'.qid]).questions # <<>>

\* C1: a submission with at least one validation error leaves every result log
\* as it was; a submission with none appends exactly one row to its log, with
\* the accepted value of every question key, and touches no other log.
C1_SubmissionAllOrNothing ==
    [][IsSubmission =>
        LET qid == last'.qid
            qs == LoadFrom(qfiles[qid]).questions
            old == rfiles[qid]
            new == rfiles'[qid]
            row == new.lines[Len(new.lines)]
        IN  IF last'.errors # <<>> THEN rfiles' = rfiles
            ELSE /\ new.exists
                 /\ DataRows(new) = DataRows(old) + 1
                 /\ old.exists => SubSeq(new.lines, 1, Len(old.lines)) = old.lines
                 /\ \A q \in Qids \ {qid} : rfiles'[q] = rfiles[q]
                 /\ Len(row) = 4 + Len(qs)
                 /\ \A i \in DOMAIN qs :
                        /\ qs[i].key \in DOMAIN Validate(qs, last'.form).answers
                        /\ row[4 + i] = Validate(qs, last'.form).answers[qs[i].key]
      ]_vars

\* a POST was rejected with errors while the log already held a row
C1_Witness ==
    /\ last.op = "submit" /\ last.method = "POST"
    /\ last.errors # <<>>
    /\ rfiles[<<"q","1">>].exists
    /\ DataRows(rfiles[<<"q","1">>]) >= 1

\* C4: each successful submission leaves the earlier lines of the log as they
\* were and adds one row after them; the log then holds exactly one header
\* row, which is its first line.
C4_HeaderOnceAppendOnly ==
    [][(IsSubmission /\ last'.flash = "merci") =>
        LET old == rfiles[last'.qid]
            new == rfiles'[last'.qid]
        IN  /\ new.exists
            /\ IF old.exists
               THEN /\ Len(new.lines) = Len(old.lines) + 1
                    /\ SubSeq(new.lines, 1, Len(old.lines)) = old.lines
               ELSE Len(new.lines) = 2
            /\ IsHeaderLine(new.lines[1])
            /\ HeaderCount(new.lines) = 1
      ]_vars

\* two successful submissions in a row: the header and two data rows
C4_Witness ==
    /\ last.op = "submit" /\ last.flash = "merci"
    /\ Len(rfiles[<<"q","1">>].lines) = 3
    /\ HeaderCount(rfiles[<<"q","1">>].lines) = 1

\* C5: every data row of every result log has as many columns as the header
\* of the log: the four metadata columns and one per question key.
C5_RowsMatchHeader ==
    \A qid \in Qids :
        rfiles[qid].exists =>
            \A i \in 2..Len(rfiles[qid].lines) :
                Len(rfiles[qid].lines[i]) = Len(rfiles[qid].lines[1])

AdminOps == {"create", "delete", "upload", "download", "results"}

\* C7: a request of a user who is no admin changes no definition file; when it
\* is a create, delete, upload, export or view-results request it is answered
\* 403 and changes no result log; when it changes a result log it is a
\* successful submission, which adds one row to one log.
C7_NonAdminFrame ==
    [][~last'.admin =>
        /\ qfiles' = qfiles
        /\ last'.op \in AdminOps => last'.code = 403 /\ rfiles' = rfiles
        /\ rfiles' # rfiles =>
               /\ last'.op = "submit" /\ last'.flash = "merci"
               /\ DataRows(rfiles'[last'.qid]) = DataRows(rfiles[last'.qid]) + 1
               /\ \A q \in Qids \ {last'.qid} : rfiles'[q] = rfiles[q]
      ]_vars

\* a delete by a user who is no admin was refused, the questionnaire and its
\* log being there
C7_Witness ==
    /\ last.op = "delete" /\ ~last.admin /\ last.code = 403
    /\ qfiles[<<"q","1">>].t # "nofile"
    /\ rfiles[<<"q","1">>].exists

(***************************************************************************)
(* Two requests inside save_answers at once.  A request evaluates          *)
(* os.path.exists, opens the log for appending (which creates it) and, on  *)
(* leaving the with block, flushes the header and row it buffered in one   *)
(* append.  Nothing in the code orders the steps of different requests.    *)
(***************************************************************************)
\* the answers the validator accepts for a question list
AcceptedAnswers(qs) ==
    {Validate(qs, f).answers : f \in {g \in SubmitForms(qs) : Validate(qs, g).errors = <<>>}}

ConcQid == <<"q","1">>

\* a log a previous save_answers call created
EarlierLog(qs) ==
    {save_answers(NoLog, qs, a, u) : a \in AcceptedAnswers(qs), u \in {CHOOSE v \in Users : v.is_admin}}

InitConc ==
    /\ qfiles \in [Qids -> UploadContents \ {BadJson}]
    /\ rfiles \in [Qids -> {NoLog} \cup EarlierLog(LoadFrom(qfiles[ConcQid]).questions)]
    /\ call \in [Requests ->
                   {[qid |-> ConcQid, questions |-> LoadFrom(qfiles[ConcQid]).questions,
                     answers |-> a, user |-> u.id] :
                        a \in AcceptedAnswers(LoadFrom(qfiles[ConcQid]).questions),
                        u \in Users}]
    /\ pc = [r \in Requests |-> "start"]
    /\ file_exists = [r \in Requests |-> FALSE]
    /\ last = NoRequest
    /\ IdleFunctions

CallUser(r) == CHOOSE u \in Users : u.id = call[r].user

\* line 175: file_exists = os.path.exists(csv_path)
SaveExists(r) ==
    /\ pc[r] = "start"
    /\ file_exists' = [file_exists EXCEPT ![r] = rfiles[call[r].qid].exists]
    /\ pc' = [pc EXCEPT ![r] = "checked"]
    /\ UNCHANGED <<qfiles, rfiles, last, call>>
    /\ FunctionsIdle

\* line 177: open(csv_path, 'a') creates the file when it is not there
SaveOpen(r) ==
    /\ pc[r] = "checked"
    /\ rfiles' = [rfiles EXCEPT ![call[r].qid].exists = TRUE]
    /\ pc' = [pc EXCEPT ![r] = "open"]
    /\ UNCHANGED <<qfiles, last, call, file_exists>>
    /\ FunctionsIdle

\* the write deciding on the header from the file as it is when written
SaveClose_CheckAtWrite(r) ==
    /\ pc[r] = "open"
    /\ rfiles' = [rfiles EXCEPT ![call[r].qid].lines =
                      @ \o WrittenLines(@ # <<>>, call[r].questions,
                                        call[r].answers, CallUser(r))]
    /\ pc' = [pc EXCEPT ![r] = "done"]
    /\ UNCHANGED <<qfiles, last, call, file_exists>>
    /\ FunctionsIdle

\* lines 180-194: the header, if file_exists was false, and the row reach the
\* file when the with block closes it
SaveClose(r) ==
    /\ pc[r] = "open"
    /\ rfiles' = [rfiles EXCEPT ![call[r].qid].lines =
                      @ \o WrittenLines(file_exists[r], call[r].questions,
                                        call[r].answers, CallUser(r))]
    /\ pc' = [pc EXCEPT ![r] = "done"]
    /\ UNCHANGED <<qfiles, last, call, file_exists>>
    /\ FunctionsIdle

NextConc ==
    \/ \E r \in Requests : SaveExists(r)
    \/ \E r \in Requests : SaveOpen(r)
    \/ \E r \in Requests : SaveClose(r)

SpecConc == InitConc /\ [][NextConc]_vars

\* C10: when two requests for the same identifier have both evaluated the
\* existence check as false and both have written, the log holds more than one
\* header row.
C10_DoubleHeader ==
    (/\ \A r \in Requests : pc[r] = "done" /\ ~file_exists[r])
    => HeaderCount(rfiles[ConcQid].lines) > 1

\* both requests are through and the log holds two header rows
C10_Witness ==
    /\ \A r \in Requests : pc[r] = "done"
    /\ HeaderCount(rfiles[ConcQid].lines) = 2
    /\ Len(rfiles[ConcQid].lines) = 4

=============================================================================
